---- MODULE Spec2Model ----
(***************************************************************************)
(* Model of scripts/replaceLocalVideoAssets.ts (src/unnamed/part_001): the *)
(* migration that rewrites local video asset references into Media Library *)
(* global document references.                                             *)
(*                                                                         *)
(* Encoding of JavaScript values.                                          *)
(*   - A string is a sequence of tokens (TLA+ strings); concatenation is   *)
(*     \o.  The separators the code looks at are tokens of their own:      *)
(*     "." and "[" in paths, ":" in global references, "drafts." as the    *)
(*     draft prefix of an identifier.                                      *)
(*   - A JSON value is a node [kind, val, kids]: kind "str"/"bool" carries *)
(*     its value in val, kind "obj" carries its entries (in insertion      *)
(*     order, as Object.entries yields them) in kids, kind "arr" carries   *)
(*     its items in kids (with an empty key).                              *)
(***************************************************************************)
EXTENDS Integers, Sequences, FiniteSets, TLC

----------------------------------------------------------------------------
(* Bounds of the model *)

\* longest `gallery` array among the documents of the dataset
MaxItems == 2
\* number of full runs of the script against the same dataset
MaxRuns == 2

----------------------------------------------------------------------------
(* JSON values *)

Str(s) == [kind |-> "str", val |-> s, kids |-> <<>>]
Bool(b) == [kind |-> "bool", val |-> <<IF b THEN "true" ELSE "false">>, kids |-> <<>>]
Obj(ents) == [kind |-> "obj", val |-> <<>>, kids |-> ents]
Arr(items) == [kind |-> "arr", val |-> <<>>,
               kids |-> [i \in 1..Len(items) |-> [k |-> "", v |-> items[i]]]]
E(k, v) == [k |-> k, v |-> v]

\* the value JavaScript reads for a missing property
Undefined == [kind |-> "undefined", val |-> <<>>, kids |-> <<>>]

HasField(n, k) == n.kind = "obj" /\ \E i \in 1..Len(n.kids) : n.kids[i].k = k

\* n[k]: the property k of n, undefined when n is no object or lacks it
Field(n, k) ==
    IF HasField(n, k)
    THEN n.kids[CHOOSE i \in 1..Len(n.kids) : n.kids[i].k = k].v
    ELSE Undefined

\* n[k] when it is a string, else the empty string
StrField(n, k) == IF Field(n, k).kind = "str" THEN Field(n, k).val ELSE <<>>

\* JavaScript truthiness of a value
Truthy(n) ==
    CASE n.kind = "undefined" -> FALSE
      [] n.kind = "str" -> n.val # <<>>
      [] n.kind = "bool" -> n.val = <<"true">>
      [] OTHER -> TRUE

----------------------------------------------------------------------------
(* Strings *)

\* s.replace(/^drafts\./, '')
StripDrafts(s) == IF Len(s) > 0 /\ Head(s) = "drafts." THEN Tail(s) ELSE s

RECURSIVE SplitOn(_, _, _, _)
\* s.split(sep): the parts of s between the separator tokens
SplitOn(s, sep, cur, acc) ==
    IF s = <<>> THEN Append(acc, cur)
    ELSE IF Head(s) = sep THEN SplitOn(Tail(s), sep, <<>>, Append(acc, cur))
    ELSE SplitOn(Tail(s), sep, Append(cur, Head(s)), acc)

Split(s, sep) == SplitOn(s, sep, <<>>, <<>>)

RECURSIVE Concat(_)
\* segs.join('')
Concat(segs) == IF segs = <<>> THEN <<>> ELSE Head(segs) \o Concat(Tail(segs))

----------------------------------------------------------------------------
(* parseMediaReference *)

NoParse == [ok |-> FALSE, libraryId |-> <<>>, instanceId |-> <<>>]

\* the token after the `reference._ref` unwrapping of line 58-60: an object
\* tagged 'reference' is replaced by its _ref, anything else is kept
UnwrapReference(reference) ==
    IF reference.kind \in {"obj", "arr"} /\ HasField(reference, "_type")
       /\ Field(reference, "_type") = Str(<<"reference">>)
    THEN Field(reference, "_ref")
    ELSE reference

parseMediaReference(reference) ==
    LET r == UnwrapReference(reference) IN
    IF ~Truthy(r) \/ r.kind # "str" THEN NoParse
    ELSE LET parts == Split(r.val, ":") IN
         IF Len(parts) # 3 \/ parts[1] # <<"media-library">> THEN NoParse
         ELSE [ok |-> TRUE, libraryId |-> parts[2], instanceId |-> parts[3]]

----------------------------------------------------------------------------
(* findAssetPaths *)

\* `[_key=="${key}"]`; the token "QUOTE" stands for the double-quote character
KeyedSegment(key) == <<"[", "_key==", "QUOTE">> \o key \o <<"QUOTE", "]">>
\* `[${i}]`, i counted from 0
IndexSegment(i) == <<"[", ToString(i), "]">>

\* RefMatches without the filter: every reference matches
RefMatches_AnyTarget(v, onlyRefTo) == TRUE

\* (opts?.onlyRefTo ? v._ref?.replace(/^drafts\./, '') === opts.onlyRefTo : true)
RefMatches(v, onlyRefTo) ==
    IF onlyRefTo # <<>>
    THEN Field(v, "_ref").kind = "str" /\ StripDrafts(Field(v, "_ref").val) = onlyRefTo
    ELSE TRUE

\* isRefTo of findAssetPaths
isRefTo(v, onlyRefTo) ==
    /\ v.kind \in {"obj", "arr"}
    /\ Field(v, "_type") = Str(<<"reference">>)
    /\ RefMatches(v, onlyRefTo)

\* p.map((seg, i) => (seg.startsWith('[') ? seg : (i ? '.' : '') + seg)).join('')
JoinPath(p) ==
    Concat([i \in 1..Len(p) |->
              IF Len(p[i]) > 0 /\ Head(p[i]) = "[" THEN p[i]
              ELSE (IF i > 1 THEN <<".">> ELSE <<>>) \o p[i]])

\* ItemSegment that ignores `_key`: every item gets its index
ItemSegment_Positional(item, i) == IndexSegment(i)

\* the segment findAssetPaths gives the item at (0-based) index i of an array
ItemSegment(item, i) ==
    LET key == IF item.kind \in {"obj", "arr"} THEN Field(item, "_key") ELSE Undefined IN
    IF Truthy(key) THEN KeyedSegment(key.val) ELSE IndexSegment(i)

\* the stack entries an array pushes: items from the last to the first
PushItems(n, path) ==
    LET len == Len(n.kids) IN
    [j \in 1..len |->
        LET i == len - j IN
        [n |-> n.kids[i + 1].v, path |-> Append(path, ItemSegment(n.kids[i + 1].v, i))]]

\* the stack entries an object pushes: one per entry, in entry order
PushEntries(n, path) ==
    [j \in 1..Len(n.kids) |-> [n |-> n.kids[j].v, path |-> Append(path, <<n.kids[j].k>>)]]

\* whether the entry named k with value v is reported
IsAssetEntry(k, v, onlyRefTo) == k = "asset" /\ isRefTo(v, onlyRefTo)

RECURSIVE EntryPaths(_, _, _, _)
\* the paths one object appends to `out`, in entry order, from entry j on
EntryPaths(n, path, onlyRefTo, j) ==
    IF j > Len(n.kids) THEN <<>>
    ELSE (IF IsAssetEntry(n.kids[j].k, n.kids[j].v, onlyRefTo)
          THEN <<JoinPath(Append(path, <<n.kids[j].k>>))>>
          ELSE <<>>)
         \o EntryPaths(n, path, onlyRefTo, j + 1)

RECURSIVE WalkStack(_, _, _)
\* the while loop of findAssetPaths: pop, push the children, collect
WalkStack(stack, out, onlyRefTo) ==
    IF stack = <<>> THEN out
    ELSE LET top == stack[Len(stack)]
             rest == SubSeq(stack, 1, Len(stack) - 1)
         IN  IF top.n.kind = "arr"
             THEN WalkStack(rest \o PushItems(top.n, top.path), out, onlyRefTo)
             ELSE IF top.n.kind = "obj"
             THEN WalkStack(rest \o PushEntries(top.n, top.path),
                            out \o EntryPaths(top.n, top.path, onlyRefTo, 1), onlyRefTo)
             ELSE WalkStack(rest, out, onlyRefTo)

findAssetPaths(doc, onlyRefTo) == WalkStack(<<[n |-> doc, path |-> <<>>]>>, <<>>, onlyRefTo)

----------------------------------------------------------------------------
(* generatePatchOperations *)

GlobalDocumentReference(ref) ==
    Obj(<<E("_type", Str(<<"globalDocumentReference">>)),
          E("_ref", Str(ref)),
          E("_weak", Bool(TRUE))>>)

\* `media-library:${libraryId}:${id}`
MediaLibraryRef(libraryId, id) == <<"media-library", ":">> \o libraryId \o <<":">> \o id

OldReference(ref) == Obj(<<E("_ref", Str(ref)), E("_type", Str(<<"reference">>))>>)

\* path.replace(/\.asset$/, '.media')
MediaPath(path) ==
    IF Len(path) >= 2 /\ path[Len(path)] = "asset" /\ path[Len(path) - 1] = "."
    THEN SubSeq(path, 1, Len(path) - 1) \o <<"media">>
    ELSE path

\* OperationsForPath with the instance and the container exchanged
OperationsForPath_Exchanged(documentId, path, assetId, libraryId, instanceId, containerId) ==
    << [documentId |-> documentId,
        path |-> path,
        oldReference |-> OldReference(assetId),
        newReference |-> GlobalDocumentReference(MediaLibraryRef(libraryId, containerId))],
       [documentId |-> documentId,
        path |-> MediaPath(path),
        oldReference |-> OldReference(<<>>),
        newReference |-> GlobalDocumentReference(MediaLibraryRef(libraryId, instanceId))] >>

\* the two operations pushed for one path
OperationsForPath(documentId, path, assetId, libraryId, instanceId, containerId) ==
    << [documentId |-> documentId,
        path |-> path,
        oldReference |-> OldReference(assetId),
        newReference |-> GlobalDocumentReference(MediaLibraryRef(libraryId, instanceId))],
       [documentId |-> documentId,
        path |-> MediaPath(path),
        oldReference |-> OldReference(<<>>),
        newReference |-> GlobalDocumentReference(MediaLibraryRef(libraryId, containerId))] >>

RECURSIVE OperationsForPaths(_, _, _, _, _, _)
OperationsForPaths(documentId, paths, assetId, libraryId, instanceId, containerId) ==
    IF paths = <<>> THEN <<>>
    ELSE OperationsForPath(documentId, Head(paths), assetId, libraryId, instanceId, containerId)
         \o OperationsForPaths(documentId, Tail(paths), assetId, libraryId, instanceId, containerId)

generatePatchOperations(document, videoAsset, libraryId, instanceId, containerId) ==
    OperationsForPaths(StrField(document, "_id"),
                       findAssetPaths(document, StrField(videoAsset, "_id")),
                       StrField(videoAsset, "_id"), libraryId, instanceId, containerId)

----------------------------------------------------------------------------
(* The content store: query and patch interfaces of the client *)

RECURSIVE AllRefs(_)
\* the targets of every _ref held anywhere in a value
AllRefs(n) ==
    IF n.kind \in {"obj", "arr"}
    THEN (IF n.kind = "obj" /\ Field(n, "_ref").kind = "str" THEN {Field(n, "_ref").val} ELSE {})
         \cup UNION {AllRefs(n.kids[i].v) : i \in 1..Len(n.kids)}
    ELSE {}

\* GROQ references(id)
References(doc, id) == id \in AllRefs(doc)

\* a GROQ projection { f1, f2, ... }: the listed attributes that exist
Project(doc, fields) ==
    Obj(SelectSeq(doc.kids, LAMBDA e : e.k \in fields))

RECURSIVE ParsePath(_)
\* the segments of a path expression of a set instruction
ParsePath(p) ==
    IF p = <<>> THEN <<>>
    ELSE IF Head(p) = "." THEN ParsePath(Tail(p))
    ELSE IF Head(p) = "["
         THEN IF p[2] = "_key=="
              THEN <<[t |-> "keyed", v |-> p[4]]>> \o ParsePath(SubSeq(p, 7, Len(p)))
              ELSE <<[t |-> "index", v |-> p[2]]>> \o ParsePath(SubSeq(p, 4, Len(p)))
         ELSE <<[t |-> "field", v |-> Head(p)]>> \o ParsePath(Tail(p))

\* whether the kid at (1-based) position i of node n is the one segment seg names
SegmentSelects(n, i, seg) ==
    CASE seg.t = "field" -> n.kind = "obj" /\ n.kids[i].k = seg.v
      [] seg.t = "keyed" -> n.kind = "arr" /\ StrField(n.kids[i].v, "_key") = <<seg.v>>
      [] seg.t = "index" -> n.kind = "arr" /\ ToString(i - 1) = seg.v

RECURSIVE SetAt(_, _, _)
\* the value n with the location segs set to val; a missing attribute of an
\* existing object is created, any other missing location is left alone
SetAt(n, segs, val) ==
    IF segs = <<>> THEN val
    ELSE IF n.kind \notin {"obj", "arr"} THEN n
    ELSE LET seg == Head(segs)
             hit == {i \in 1..Len(n.kids) : SegmentSelects(n, i, seg)}
         IN  IF hit # {}
             THEN [n EXCEPT !.kids =
                     [i \in 1..Len(n.kids) |->
                        IF i \in hit
                        THEN E(n.kids[i].k, SetAt(n.kids[i].v, Tail(segs), val))
                        ELSE n.kids[i]]]
             ELSE IF seg.t = "field" /\ n.kind = "obj" /\ Len(segs) = 1
             THEN [n EXCEPT !.kids = Append(n.kids, E(seg.v, val))]
             ELSE n

RECURSIVE ApplySets(_, _)
\* a patch: its chained set instructions applied in order
ApplySets(doc, sets) ==
    IF sets = <<>> THEN doc
    ELSE ApplySets(SetAt(doc, ParsePath(Head(sets).path), Head(sets).value), Tail(sets))

----------------------------------------------------------------------------
(* The Media Library: instances and the containers whose currentVersion is them *)

NoContainer == <<>>

Registry ==
    { [library |-> <<"lib1">>, instance |-> <<"inst1">>, container |-> <<"cont1">>],
      [library |-> <<"lib1">>, instance |-> <<"inst2">>, container |-> NoContainer],
      [library |-> <<"lib1">>, instance |-> <<"inst3">>, container |-> <<"cont3">>] }

\* *[_id == $assetId][0] { _id, "container": *[... currentVersion._ref == $assetId][0] }
RegistryLookup(libraryId, instanceId) ==
    LET found == {r \in Registry : r.library = libraryId /\ r.instance = instanceId} IN
    IF found = {} THEN [result |-> FALSE, container |-> NoContainer]
    ELSE [result |-> TRUE, container |-> (CHOOSE r \in found : TRUE).container]

----------------------------------------------------------------------------
(* getMediaLibraryAssetInfo and the skip reasons of main *)

NoInfo == [ok |-> FALSE, libraryId |-> <<>>, instanceId |-> <<>>, containerId |-> <<>>]

\* whether the function gets as far as the registry query (which can throw)
QueriesRegistry(videoAsset) ==
    Truthy(Field(videoAsset, "media")) /\ parseMediaReference(Field(videoAsset, "media")).ok

\* the value returned when the registry query, if any, answers
getMediaLibraryAssetInfo(videoAsset) ==
    IF ~Truthy(Field(videoAsset, "media")) THEN NoInfo
    ELSE LET parsed == parseMediaReference(Field(videoAsset, "media")) IN
         IF ~parsed.ok THEN NoInfo
         ELSE LET answer == RegistryLookup(parsed.libraryId, parsed.instanceId) IN
              IF ~answer.result \/ answer.container = NoContainer THEN NoInfo
              ELSE [ok |-> TRUE, libraryId |-> parsed.libraryId,
                    instanceId |-> parsed.instanceId, containerId |-> answer.container]

\* SkipReason that does not look at the asset
SkipReason_Collapsed(asset) == "No 'media' field in video asset"

\* the "Reason:" line main prints for a skipped asset
SkipReason(asset) ==
    IF ~Truthy(Field(asset, "media")) THEN "No 'media' field in video asset"
    ELSE IF ~parseMediaReference(Field(asset, "media")).ok
         THEN "Invalid media reference format"
         ELSE "Could not query media library asset or container"

\* what main logs when mediaLibraryInfo is null: nothing unless verbose
SkipLog(asset, isVerbose) ==
    IF isVerbose THEN <<[asset |-> StrField(asset, "_id"), reason |-> SkipReason(asset)]>>
    ELSE <<>>

----------------------------------------------------------------------------
(* applyPatches: grouping and the per-document patch *)

RECURSIVE DocumentOrder(_, _)
\* the keys of operationsByDocument, in insertion order
DocumentOrder(operations, seen) ==
    IF operations = <<>> THEN seen
    ELSE DocumentOrder(Tail(operations),
                       IF \E j \in 1..Len(seen) : seen[j] = Head(operations).documentId
                       THEN seen
                       ELSE Append(seen, Head(operations).documentId))

\* GroupByDocument without the grouping: one group per operation
GroupByDocument_PerOperation(operations) ==
    [j \in 1..Len(operations) |->
        [documentId |-> operations[j].documentId, docOperations |-> <<operations[j]>>]]

\* operationsByDocument as a sequence of [documentId, docOperations]
GroupByDocument(operations) ==
    LET ids == DocumentOrder(operations, <<>>) IN
    [j \in 1..Len(ids) |->
        [documentId |-> ids[j],
         docOperations |-> SelectSeq(operations, LAMBDA op : op.documentId = ids[j])]]

\* the set instructions chained on client.patch(documentId)
PatchSets(docOperations) ==
    [j \in 1..Len(docOperations) |->
        [path |-> docOperations[j].path, value |-> docOperations[j].newReference]]

\* the lines the dry run prints for one document
DryRunLines(docOperations) ==
    [j \in 1..Len(docOperations) |->
        [path |-> docOperations[j].path,
         from |-> StrField(docOperations[j].oldReference, "_ref"),
         to |-> StrField(docOperations[j].newReference, "_ref")]]

----------------------------------------------------------------------------
(* The datasets the runs start from *)

Ref(id) == Obj(<<E("_type", Str(<<"reference">>)), E("_ref", Str(id))>>)

VideoA == <<"videoA">>
VideoB == <<"videoB">>
PostX == <<"postX">>
PostY == <<"postY">>

\* the `media` values a sanity.videoAsset record can carry (Undefined: no field)
MediaValues ==
    { Undefined,
      Ref(<<"media-library", ":", "lib1", ":", "inst1">>),
      Ref(<<"media-library", ":", "x">>),
      Ref(<<"other-kind", ":", "x", ":", "y">>),
      Ref(<<"media-library", ":", "lib1", ":", "inst9">>),
      Ref(<<"media-library", ":", "lib1", ":", "inst2">>),
      GlobalDocumentReference(<<"media-library", ":", "lib1", ":", "inst1">>) }

VideoAssetRecord(id, media) ==
    Obj(<<E("_id", Str(id)), E("_type", Str(<<"sanity.videoAsset">>)),
          E("url", Str(<<"https://cdn/", "file.mp4">>))>>
        \o (IF media = Undefined THEN <<>> ELSE <<E("media", media)>>))

Post(id, fields) ==
    Obj(<<E("_id", Str(id)), E("_type", Str(<<"post">>))>> \o fields)

\* a `sanity.video` object: its asset, with or without a sibling media
Video(asset, withMedia) ==
    Obj(<<E("_type", Str(<<"sanity.video">>))>>
        \o (IF withMedia THEN <<E("media", Ref(<<"legacyMedia">>))>> ELSE <<>>)
        \o <<E("asset", asset)>>)

\* a gallery of n items, keyed or positional, referencing videoA and videoB in turn
Gallery(n, keyed) ==
    Arr([j \in 1..n |->
           Obj((IF keyed THEN <<E("_key", Str(<<"k" \o ToString(j)>>))>> ELSE <<>>)
               \o <<E("asset", Ref(IF j % 2 = 1 THEN VideoA ELSE VideoB))>>)])

\* the field lists of the documents of the dataset
FieldLists ==
    { <<>>,
      <<E("video", Video(Ref(VideoA), TRUE))>>,
      <<E("asset", Ref(VideoA))>>,
      <<E("video", Video(Ref(<<"drafts.">> \o VideoA), FALSE)), E("teaser", Video(Ref(VideoA), TRUE))>>,
      <<E("video", Video(Ref(VideoB), TRUE)), E("poster", Ref(VideoA))>>,
      <<E("video", Video(Ref(VideoA), FALSE)), E("clip", Video(Ref(VideoB), TRUE))>>,
      <<E("video", Video(GlobalDocumentReference(<<"media-library", ":", "lib1", ":", "inst1">>), TRUE))>>,
      <<E("video", Video(Obj(<<E("_type", Str(<<"file">>)), E("_ref", Str(VideoA))>>), FALSE))>> }
    \cup { <<E("gallery", Gallery(n, keyed))>> : n \in 1..MaxItems, keyed \in BOOLEAN }

\* the second document references both assets
PostYFields == <<E("clip", Video(Ref(VideoB), TRUE)), E("video", Video(Ref(VideoA), TRUE))>>

\* the `media` values of the second asset: resolvable, or a two-part token
MediaValuesB ==
    { Ref(<<"media-library", ":", "lib1", ":", "inst3">>),
      Ref(<<"media-library", ":", "x">>) }

Dataset(mediaA, mediaB, fieldsX) ==
    (VideoA :> VideoAssetRecord(VideoA, mediaA))
    @@ (VideoB :> VideoAssetRecord(VideoB, mediaB))
    @@ (PostX :> Post(PostX, fieldsX))
    @@ (PostY :> Post(PostY, PostYFields))

\* every order in which a query can return the members of S
Orderings(S) ==
    {q \in [1..Cardinality(S) -> S] : \A a, b \in 1..Cardinality(S) : a # b => q[a] # q[b]}

----------------------------------------------------------------------------
(* State *)

VARIABLES
    store,               \* the dataset: document id -> document
    dryRun,              \* --dry-run
    verbose,             \* --verbose
    pc,                  \* where main is
    run,                 \* which run of the script this is
    videoAssets,         \* the result of queryAllVideoAssets
    i,                   \* index of the asset being processed (from 1)
    mediaLibraryInfo,    \* the Resolver's result for asset i
    allPatchOperations,  \* the accumulated operations
    k,                   \* index of the document group applyPatches is at (from 1)
    commits,             \* the transactions submitted: [documentId, sets, ok]
    report,              \* the dry-run listing: [documentId, lines]
    reasons,             \* the skip reasons printed
    failed,              \* the assets whose processing was reported as failed
    runStart,            \* the dataset as it was when the run began
    migrated,            \* <<document, asset>> pairs committed by earlier runs
    origin,              \* the dataset as it was before the first run
    externalEdits,       \* the edits other actors made: [documentId, path, value]
    interrupted          \* the runs that were aborted before they ended

vars == <<store, dryRun, verbose, pc, run, videoAssets, i, mediaLibraryInfo,
          allPatchOperations, k, commits, report, reasons, failed, runStart, migrated,
                   origin, externalEdits, interrupted>>

\* main is about to start its first run on dataset st
Start(st) ==
    /\ store = st
    /\ pc = "query"
    /\ run = 1
    /\ videoAssets = <<>>
    /\ i = 1
    /\ mediaLibraryInfo = NoInfo
    /\ allPatchOperations = <<>>
    /\ k = 1
    /\ commits = <<>>
    /\ report = <<>>
    /\ reasons = <<>>
    /\ failed = <<>>
    /\ runStart = st
    /\ migrated = {}
    /\ origin = st
    /\ externalEdits = <<>>
    /\ interrupted = {}

Init ==
    /\ \E mediaA \in MediaValues, mediaB \in MediaValuesB, fieldsX \in FieldLists :
          Start(Dataset(mediaA, mediaB, fieldsX))
    /\ dryRun \in BOOLEAN
    /\ verbose \in BOOLEAN

----------------------------------------------------------------------------
(* Queries *)

\* *[_type == "sanity.videoAsset"]
VideoAssetIds(st) == {d \in DOMAIN st : StrField(st[d], "_type") = <<"sanity.videoAsset">>}

\* the projection of queryAllVideoAssets
VideoAssetFields == {"_id", "_type", "_rev", "uploadId", "originalFilename", "size", "media"}

\* *[references($assetId) || references($draftAssetId)]
findDocumentsReferencingAsset(st, assetId) ==
    LET cleanAssetId == StripDrafts(assetId)
        draftAssetId == <<"drafts.">> \o cleanAssetId
    IN  {d \in DOMAIN st : References(st[d], cleanAssetId) \/ References(st[d], draftAssetId)}

RECURSIVE OperationsForDocuments(_, _, _)
\* the operations the inner loop of main pushes for the referencing documents
OperationsForDocuments(referencingDocs, asset, info) ==
    IF referencingDocs = <<>> THEN <<>>
    ELSE generatePatchOperations(Head(referencingDocs), asset,
                                 info.libraryId, info.instanceId, info.containerId)
         \o OperationsForDocuments(Tail(referencingDocs), asset, info)

----------------------------------------------------------------------------
(* main *)

\* Step 1 fails: process.exit(1)
QueryAllVideoAssetsFail ==
    /\ pc = "query"
    /\ pc' = "exit1"
    /\ UNCHANGED <<store, dryRun, verbose, run, videoAssets, i, mediaLibraryInfo,
                   allPatchOperations, k, commits, report, reasons, failed, runStart, migrated,
                   origin, externalEdits, interrupted>>

\* Step 1: the video assets, in whatever order the store returns them
QueryAllVideoAssets ==
    /\ pc = "query"
    /\ \E order \in Orderings(VideoAssetIds(store)) :
          videoAssets' = [j \in 1..Len(order) |-> Project(store[order[j]], VideoAssetFields)]
    /\ pc' = IF VideoAssetIds(store) = {} THEN "exit0" ELSE "resolve"
    /\ i' = 1
    /\ UNCHANGED <<store, dryRun, verbose, run, mediaLibraryInfo,
                   allPatchOperations, k, commits, report, reasons, failed, runStart, migrated,
                   origin, externalEdits, interrupted>>

\* Step 2, the registry query throws: nothing catches it before main().catch
ResolveThrows ==
    /\ pc = "resolve" /\ i <= Len(videoAssets)
    /\ QueriesRegistry(videoAssets[i])
    /\ pc' = "fatal"
    /\ UNCHANGED <<store, dryRun, verbose, run, videoAssets, i, mediaLibraryInfo,
                   allPatchOperations, k, commits, report, reasons, failed, runStart, migrated,
                   origin, externalEdits, interrupted>>

\* Step 2 returns null: the asset is skipped
ResolveSkips ==
    /\ pc = "resolve" /\ i <= Len(videoAssets)
    /\ ~getMediaLibraryAssetInfo(videoAssets[i]).ok
    /\ reasons' = reasons \o SkipLog(videoAssets[i], verbose)
    /\ i' = i + 1
    /\ UNCHANGED <<store, dryRun, verbose, pc, run, videoAssets, mediaLibraryInfo,
                   allPatchOperations, k, commits, report, failed, runStart, migrated,
                   origin, externalEdits, interrupted>>

\* Step 2 returns the triple
ResolveFinds ==
    /\ pc = "resolve" /\ i <= Len(videoAssets)
    /\ getMediaLibraryAssetInfo(videoAssets[i]).ok
    /\ mediaLibraryInfo' = getMediaLibraryAssetInfo(videoAssets[i])
    /\ pc' = "discover"
    /\ UNCHANGED <<store, dryRun, verbose, run, videoAssets, i,
                   allPatchOperations, k, commits, report, reasons, failed, runStart, migrated,
                   origin, externalEdits, interrupted>>

\* Step 3 throws: caught, the asset is reported as failed
DiscoverThrows ==
    /\ pc = "discover"
    /\ failed' = Append(failed, StrField(videoAssets[i], "_id"))
    /\ mediaLibraryInfo' = NoInfo
    /\ i' = i + 1
    /\ pc' = "resolve"
    /\ UNCHANGED <<store, dryRun, verbose, run, videoAssets,
                   allPatchOperations, k, commits, report, reasons, runStart, migrated,
                   origin, externalEdits, interrupted>>

\* Steps 3 to 5: the referencing documents, in whatever order the store returns
\* them, and their operations
Discover ==
    /\ pc = "discover"
    /\ \E order \in Orderings(findDocumentsReferencingAsset(store, StrField(videoAssets[i], "_id"))) :
          allPatchOperations' =
              allPatchOperations
              \o OperationsForDocuments([j \in 1..Len(order) |-> store[order[j]]],
                                        videoAssets[i], mediaLibraryInfo)
    /\ mediaLibraryInfo' = NoInfo
    /\ i' = i + 1
    /\ pc' = "resolve"
    /\ UNCHANGED <<store, dryRun, verbose, run, videoAssets,
                   k, commits, report, reasons, failed, runStart, migrated,
                   origin, externalEdits, interrupted>>

\* the path tokens in use that contain word as a substring
NamesIncluding(word) ==
    CASE word = "asset" -> {"asset", "assets"}
      [] word = "media" -> {"media"}

\* path.includes(word): no word spans two tokens, the separators are tokens
Includes(path, word) == \E j \in 1..Len(path) : path[j] \in NamesIncluding(word)

\* new Set(allPatchOperations.map((op) => op.documentId)).size
uniqueDocuments(operations) ==
    Cardinality({operations[j].documentId : j \in 1..Len(operations)})

\* allPatchOperations.filter((op) => op.path.includes('asset')).length
assetOps(operations) ==
    Cardinality({j \in 1..Len(operations) : Includes(operations[j].path, "asset")})

\* allPatchOperations.filter((op) => op.path.includes('media')).length
mediaOps(operations) ==
    Cardinality({j \in 1..Len(operations) : Includes(operations[j].path, "media")})

\* Step 6: exit when there is nothing to update, else call applyPatches
Summary ==
    /\ pc = "resolve" /\ i > Len(videoAssets)
    /\ pc' = IF allPatchOperations = <<>> THEN "exit0" ELSE "apply"
    /\ k' = 1
    /\ UNCHANGED <<store, dryRun, verbose, run, videoAssets, i, mediaLibraryInfo,
                   allPatchOperations, commits, report, reasons, failed, runStart, migrated,
                   origin, externalEdits, interrupted>>

----------------------------------------------------------------------------
(* applyPatches, one document per step *)

Groups == GroupByDocument(allPatchOperations)

\* Commit of a transaction the patch was never added to
Commit_WithoutPatch(st, documentId, sets) == st

\* Commit that replaces the document by one holding the set values only
Commit_Replaces(st, documentId, sets) ==
    [st EXCEPT ![documentId] = ApplySets(Obj(<<E("_id", Str(documentId))>>), sets)]

\* the store after the transaction patching documentId with sets commits
Commit(st, documentId, sets) == [st EXCEPT ![documentId] = ApplySets(@, sets)]

\* DryRunDocument that also commits the patch
DryRunDocument_Commits ==
    /\ pc = "apply" /\ k <= Len(Groups)
    /\ dryRun
    /\ report' = Append(report, [documentId |-> Groups[k].documentId,
                                 lines |-> DryRunLines(Groups[k].docOperations)])
    /\ store' = [store EXCEPT ![Groups[k].documentId] =
                     ApplySets(@, PatchSets(Groups[k].docOperations))]
    /\ k' = k + 1
    /\ UNCHANGED <<dryRun, verbose, pc, run, videoAssets, i, mediaLibraryInfo,
                   allPatchOperations, commits, reasons, failed, runStart, migrated,
                   origin, externalEdits, interrupted>>

DryRunDocument ==
    /\ pc = "apply" /\ k <= Len(Groups)
    /\ dryRun
    /\ report' = Append(report, [documentId |-> Groups[k].documentId,
                                 lines |-> DryRunLines(Groups[k].docOperations)])
    /\ k' = k + 1
    /\ UNCHANGED <<store, dryRun, verbose, pc, run, videoAssets, i, mediaLibraryInfo,
                   allPatchOperations, commits, reasons, failed, runStart, migrated,
                   origin, externalEdits, interrupted>>

\* CommitSucceeds of a patch conditional on the document being as it was read:
\* a document edited since is left alone
CommitSucceeds_IfUnchanged ==
    /\ pc = "apply" /\ k <= Len(Groups)
    /\ ~dryRun
    /\ Groups[k].documentId \in DOMAIN store
    /\ store' = IF store[Groups[k].documentId] = runStart[Groups[k].documentId]
                 THEN Commit(store, Groups[k].documentId, PatchSets(Groups[k].docOperations))
                 ELSE store
    /\ commits' = Append(commits, [documentId |-> Groups[k].documentId,
                                   sets |-> PatchSets(Groups[k].docOperations),
                                   ok |-> TRUE])
    /\ k' = k + 1
    /\ UNCHANGED <<dryRun, verbose, pc, run, videoAssets, i, mediaLibraryInfo,
                   allPatchOperations, report, reasons, failed, runStart, migrated,
                   origin, externalEdits, interrupted>>

CommitSucceeds ==
    /\ pc = "apply" /\ k <= Len(Groups)
    /\ ~dryRun
    /\ Groups[k].documentId \in DOMAIN store
    /\ store' = Commit(store, Groups[k].documentId, PatchSets(Groups[k].docOperations))
    /\ commits' = Append(commits, [documentId |-> Groups[k].documentId,
                                   sets |-> PatchSets(Groups[k].docOperations),
                                   ok |-> TRUE])
    /\ k' = k + 1
    /\ UNCHANGED <<dryRun, verbose, pc, run, videoAssets, i, mediaLibraryInfo,
                   allPatchOperations, report, reasons, failed, runStart, migrated,
                   origin, externalEdits, interrupted>>

\* CommitFails without the try/catch: the error ends the run
CommitFails_Aborts ==
    /\ pc = "apply" /\ k <= Len(Groups)
    /\ ~dryRun
    /\ commits' = Append(commits, [documentId |-> Groups[k].documentId,
                                   sets |-> PatchSets(Groups[k].docOperations),
                                   ok |-> FALSE])
    /\ pc' = "fatal"
    /\ UNCHANGED <<store, dryRun, verbose, run, videoAssets, i, mediaLibraryInfo,
                   allPatchOperations, k, report, reasons, failed, runStart, migrated,
                   origin, externalEdits, interrupted>>

\* CommitFails of a store whose transaction is not atomic: the first set
\* instruction stays applied
CommitFails_HalfApplied ==
    /\ pc = "apply" /\ k <= Len(Groups)
    /\ ~dryRun
    /\ Groups[k].documentId \in DOMAIN store
    /\ store' = Commit(store, Groups[k].documentId,
                       SubSeq(PatchSets(Groups[k].docOperations), 1, 1))
    /\ commits' = Append(commits, [documentId |-> Groups[k].documentId,
                                   sets |-> PatchSets(Groups[k].docOperations),
                                   ok |-> FALSE])
    /\ k' = k + 1
    /\ UNCHANGED <<dryRun, verbose, pc, run, videoAssets, i, mediaLibraryInfo,
                   allPatchOperations, report, reasons, failed, runStart, migrated,
                   origin, externalEdits, interrupted>>

\* the commit throws: caught and logged, the transaction leaves the store as it was
CommitFails ==
    /\ pc = "apply" /\ k <= Len(Groups)
    /\ ~dryRun
    /\ commits' = Append(commits, [documentId |-> Groups[k].documentId,
                                   sets |-> PatchSets(Groups[k].docOperations),
                                   ok |-> FALSE])
    /\ k' = k + 1
    /\ UNCHANGED <<store, dryRun, verbose, pc, run, videoAssets, i, mediaLibraryInfo,
                   allPatchOperations, report, reasons, failed, runStart, migrated,
                   origin, externalEdits, interrupted>>

Finish ==
    /\ pc = "apply" /\ k > Len(Groups)
    /\ pc' = "done"
    /\ UNCHANGED <<store, dryRun, verbose, run, videoAssets, i, mediaLibraryInfo,
                   allPatchOperations, k, commits, report, reasons, failed, runStart, migrated,
                   origin, externalEdits, interrupted>>

\* the documents whose transaction committed in this run
CommittedDocuments == {commits[j].documentId : j \in {j \in 1..Len(commits) : commits[j].ok}}

\* the <<document, asset>> pairs whose `asset` operation was part of a committed transaction
CommittedPairs ==
    {<<allPatchOperations[j].documentId, StrField(allPatchOperations[j].oldReference, "_ref")>> :
        j \in {j \in 1..Len(allPatchOperations) :
                 /\ allPatchOperations[j].documentId \in CommittedDocuments
                 /\ StrField(allPatchOperations[j].oldReference, "_ref") # <<>>}}

\* the script is run again on the dataset the finished run left
Rerun ==
    /\ pc = "done" /\ ~dryRun /\ run < MaxRuns
    /\ run' = run + 1
    /\ migrated' = migrated \cup CommittedPairs
    /\ runStart' = store
    /\ pc' = "query"
    /\ videoAssets' = <<>>
    /\ i' = 1
    /\ allPatchOperations' = <<>>
    /\ k' = 1
    /\ commits' = <<>>
    /\ report' = <<>>
    /\ reasons' = <<>>
    /\ failed' = <<>>
    /\ UNCHANGED <<store, dryRun, verbose, mediaLibraryInfo,
                   origin, externalEdits, interrupted>>

Next ==
    \/ QueryAllVideoAssetsFail
    \/ QueryAllVideoAssets
    \/ ResolveThrows
    \/ ResolveSkips
    \/ ResolveFinds
    \/ DiscoverThrows
    \/ Discover
    \/ Summary
    \/ DryRunDocument
    \/ CommitSucceeds
    \/ CommitFails
    \/ Finish
    \/ Rerun

Spec == Init /\ [][Next]_vars

----------------------------------------------------------------------------
(* An apply-mode run that is aborted, and the run that resumes the migration *)

\* the process is killed while main is running
Abort ==
    /\ pc \in {"query", "resolve", "discover", "apply"}
    /\ ~dryRun
    /\ pc' = "aborted"
    /\ interrupted' = interrupted \cup {run}
    /\ UNCHANGED <<store, dryRun, verbose, run, videoAssets, i, mediaLibraryInfo,
                   allPatchOperations, k, commits, report, reasons, failed, runStart, migrated,
                   origin, externalEdits>>

\* the script is run again on the dataset the aborted run left
Resume ==
    /\ pc = "aborted" /\ run < MaxRuns
    /\ run' = run + 1
    /\ migrated' = migrated \cup CommittedPairs
    /\ runStart' = store
    /\ pc' = "query"
    /\ videoAssets' = <<>>
    /\ i' = 1
    /\ allPatchOperations' = <<>>
    /\ k' = 1
    /\ commits' = <<>>
    /\ report' = <<>>
    /\ reasons' = <<>>
    /\ failed' = <<>>
    /\ UNCHANGED <<store, dryRun, verbose, mediaLibraryInfo,
                   origin, externalEdits, interrupted>>

NextResume == Next \/ Abort \/ Resume

SpecResume == Init /\ [][NextResume]_vars

----------------------------------------------------------------------------
(* Another actor editing the dataset while the script runs *)

VideoC == <<"videoC">>

\* the values the other actor writes
ExternalValues == {Ref(VideoC), Ref(VideoB)}

\* between the query that read the document and the document's commit, another
\* actor sets an `asset` field the script has an operation for
ExternalEdit ==
    /\ pc \in {"resolve", "discover", "apply"}
    /\ externalEdits = <<>>
    /\ \E j \in 1..Len(allPatchOperations), value \in ExternalValues :
          LET op == allPatchOperations[j]
              edited == ApplySets(store[op.documentId], <<[path |-> op.path, value |-> value]>>)
          IN  /\ op.path[Len(op.path)] = "asset"
              /\ \A c \in 1..Len(commits) : commits[c].documentId # op.documentId
              /\ edited # store[op.documentId]
              /\ store' = [store EXCEPT ![op.documentId] = edited]
              /\ externalEdits' = <<[run |-> run, documentId |-> op.documentId,
                                     path |-> op.path, value |-> value]>>
    /\ UNCHANGED <<dryRun, verbose, pc, run, videoAssets, i, mediaLibraryInfo,
                   allPatchOperations, k, commits, report, reasons, failed, runStart, migrated,
                   origin, interrupted>>

NextRace == Next \/ ExternalEdit

SpecRace == Init /\ [][NextRace]_vars

----------------------------------------------------------------------------
(* The gather phase alone: main up to the patch summary, before applyPatches *)

NextGather ==
    \/ QueryAllVideoAssetsFail
    \/ QueryAllVideoAssets
    \/ ResolveThrows
    \/ ResolveSkips
    \/ ResolveFinds
    \/ DiscoverThrows
    \/ Discover
    \/ Summary

SpecGather == Init /\ [][NextGather]_vars

\* field lists whose names contain the words the summary looks for
FieldListsNamed ==
    { <<E("media", Video(Ref(VideoA), TRUE))>>,
      <<E("assets", Gallery(1, TRUE))>> }

InitSummary ==
    /\ \E mediaA \in MediaValues, mediaB \in MediaValuesB,
          fieldsX \in FieldLists \cup FieldListsNamed :
          Start(Dataset(mediaA, mediaB, fieldsX))
    /\ dryRun \in BOOLEAN
    /\ verbose \in BOOLEAN

\* the gather phase over datasets with such field names
SpecSummary == InitSummary /\ [][NextGather]_vars

----------------------------------------------------------------------------
(* Properties *)

Last(q) == q[Len(q)]
ButLast(q) == SubSeq(q, 1, Len(q) - 1)

\* the documents of the dataset that are not video asset records
DocumentIds == DOMAIN store \ VideoAssetIds(store)

\* how many of the accumulated operations touch path q of document d
OperationsOn(d, q) ==
    Cardinality({j \in 1..Len(allPatchOperations) :
                    allPatchOperations[j].documentId = d /\ allPatchOperations[j].path = q})

\* C1: every operation on a path whose final segment is `asset` has exactly one
\* partner in the batch on the same path with that segment replaced by `media`
\* (a different path, same parent), and every operation on a `media` path has
\* exactly one such `asset` partner.
C1_PairingInvariant ==
    \A j \in 1..Len(allPatchOperations) :
        LET op == allPatchOperations[j] IN
        /\ Last(op.path) = "asset" =>
              OperationsOn(op.documentId, Append(ButLast(op.path), "media")) = 1
        /\ Last(op.path) = "media" =>
              OperationsOn(op.documentId, Append(ButLast(op.path), "asset")) = 1

\* the resolution triples the Planner is tried with
Triples ==
    { [libraryId |-> <<"lib1">>, instanceId |-> <<"inst1">>, containerId |-> <<"cont1">>],
      [libraryId |-> <<"lib1">>, instanceId |-> <<"inst3">>, containerId |-> <<"cont3">>] }

\* v is a weak globalDocumentReference to media-library:<libraryId>:<id>
IsWeakGlobalReference(v, libraryId, id) ==
    /\ Field(v, "_type") = Str(<<"globalDocumentReference">>)
    /\ Field(v, "_ref") = Str(<<"media-library", ":">> \o libraryId \o <<":">> \o id)
    /\ Field(v, "_weak") = Bool(TRUE)

C3_PlannerFor(doc, asset, t) ==
    LET paths == findAssetPaths(doc, StrField(asset, "_id"))
        ops == generatePatchOperations(doc, asset, t.libraryId, t.instanceId, t.containerId)
    IN  /\ Len(ops) = 2 * Len(paths)
        /\ \A j \in 1..Len(paths) :
              /\ ops[2 * j - 1].path = paths[j]
              /\ ops[2 * j - 1].documentId = StrField(doc, "_id")
              /\ IsWeakGlobalReference(ops[2 * j - 1].newReference, t.libraryId, t.instanceId)
              /\ ops[2 * j].documentId = StrField(doc, "_id")
              /\ IsWeakGlobalReference(ops[2 * j].newReference, t.libraryId, t.containerId)

\* C3: for every document and resolution triple, generatePatchOperations returns
\* two operations per located path and nothing else: the first replaces the
\* path by a weak global reference to the instance, the second carries a weak
\* global reference to the container, both carry the document's id; no path,
\* no operation.
C3_TwoOperationsPerPath ==
    \A d \in DocumentIds, a \in VideoAssetIds(store), t \in Triples :
        C3_PlannerFor(store[d], store[a], t)

\* C3 witness: the Planner has produced four operations for the one document
\* that holds two paths to videoA, and none for a document without a path
C3_Witness ==
    /\ Len(findAssetPaths(store[PostX], VideoA)) = 2
    /\ findAssetPaths(store[PostX], VideoB) = <<>>
    /\ Len(SelectSeq(allPatchOperations, LAMBDA op : op.documentId = PostX)) = 4

RECURSIVE FieldLocations(_, _)
\* every attribute of every object of a value: where it is, its name, its value
FieldLocations(n, path) ==
    IF n.kind = "obj"
    THEN UNION {{[path |-> Append(path, <<n.kids[j].k>>), k |-> n.kids[j].k, v |-> n.kids[j].v]}
                \cup FieldLocations(n.kids[j].v, Append(path, <<n.kids[j].k>>))
                : j \in 1..Len(n.kids)}
    ELSE IF n.kind = "arr"
    THEN UNION {FieldLocations(n.kids[j].v, Append(path, ItemSegment(n.kids[j].v, j - 1)))
                : j \in 1..Len(n.kids)}
    ELSE {}

\* v is tagged `reference` and its target, draft marker stripped, is target
IsReferenceTo(v, target) ==
    /\ Field(v, "_type") = Str(<<"reference">>)
    /\ \/ Field(v, "_ref") = Str(target) /\ Head(target) # "drafts."
       \/ Field(v, "_ref") = Str(<<"drafts.">> \o target)

\* the paths of the `asset` attributes that reference target
AssetLocations(doc, target) ==
    {JoinPath(loc.path) : loc \in {l \in FieldLocations(doc, <<>>) :
                                      l.k = "asset" /\ IsReferenceTo(l.v, target)}}

\* the filters the Locator is tried with
Filters == {VideoA, VideoB, <<"drafts.">> \o VideoA}

\* C4: for every document and filter T, findAssetPaths returns, each once,
\* exactly the paths of the attributes named `asset` whose value is tagged
\* `reference` and whose target, draft marker stripped, is T.
C4_FilterCorrectness ==
    \A d \in DOMAIN store, T \in Filters :
        LET paths == findAssetPaths(store[d], T) IN
        /\ {paths[j] : j \in 1..Len(paths)} = AssetLocations(store[d], T)
        /\ Len(paths) = Cardinality(AssetLocations(store[d], T))

\* C4 witness: a document holds `asset` references to videoA and to videoB and
\* the Locator, asked for videoA, has yielded the operations of videoA's path only
C4_Witness ==
    /\ AssetLocations(store[PostX], VideoA) # {}
    /\ AssetLocations(store[PostX], VideoB) # {}
    /\ pc = "resolve" /\ i = 2 /\ StrField(videoAssets[1], "_id") = VideoA
    /\ Len(SelectSeq(allPatchOperations, LAMBDA op : op.documentId = PostX))
         = 2 * Cardinality(AssetLocations(store[PostX], VideoA))

\* the assets main has finished with
Processed == {j \in 1..Len(videoAssets) : j < i}

\* the processed assets the Resolver returned null for
Unresolved == {j \in Processed : ~getMediaLibraryAssetInfo(videoAssets[j]).ok}

\* media is a reference whose target is media-library:<library>:<instance>
IsMediaLibraryToken(media) ==
    /\ Field(media, "_type") = Str(<<"reference">>)
    /\ Field(media, "_ref").kind = "str"
    /\ LET ref == Field(media, "_ref").val IN
       /\ Len(ref) >= 2 /\ ref[1] = "media-library" /\ ref[2] = ":"
       /\ Cardinality({j \in 1..Len(ref) : ref[j] = ":"}) = 2

\* the registry holds the instance media names, and a container for it
InRegistry(media) ==
    \E r \in Registry :
        /\ r.container # NoContainer
        /\ Field(media, "_ref") =
               Str(<<"media-library", ":">> \o r.library \o <<":">> \o r.instance)

NoMapping == "No 'media' field in video asset"
MalformedToken == "Invalid media reference format"
LookupFailed == "Could not query media library asset or container"

\* the failure kinds the claim allows for an unresolved asset
FailureKinds(asset) ==
    LET media == Field(asset, "media") IN
    IF media.kind = "undefined" THEN {NoMapping}
    ELSE IF Field(media, "_type") # Str(<<"reference">>)
         THEN {NoMapping, MalformedToken, LookupFailed}
    ELSE IF ~IsMediaLibraryToken(media) THEN {MalformedToken}
    ELSE IF ~InRegistry(media) THEN {LookupFailed}
    ELSE {}

\* every unresolved asset has its failure kind among the printed reasons
ReasonsReported ==
    \A j \in Unresolved :
        \E m \in 1..Len(reasons) :
            /\ reasons[m].asset = StrField(videoAssets[j], "_id")
            /\ reasons[m].reason \in FailureKinds(videoAssets[j])

\* C5 (as claimed): for every asset skipped as unresolved the reason, one of
\* three distinct kinds (no mapping, malformed token, registry lookup failed),
\* is reported.
C5_ReasonAlwaysReported == ReasonsReported

\* C5 (amended): with --verbose every asset skipped as unresolved gets exactly
\* one reason line carrying its kind, re-derived by main from the asset;
\* without --verbose no reason is reported at all.
C5_ReasonReportedWhenVerbose ==
    /\ verbose => ReasonsReported /\ Len(reasons) = Cardinality(Unresolved)
    /\ ~verbose => reasons = <<>>
    /\ \A j \in Unresolved : getMediaLibraryAssetInfo(videoAssets[j]) = NoInfo

\* C5 witness: a verbose run has skipped both assets, for two different reasons
C5_Witness ==
    /\ verbose /\ Len(reasons) = 2
    /\ reasons[1].reason # reasons[2].reason
    /\ MalformedToken \in {reasons[1].reason, reasons[2].reason}

\* C6: a failed commit does not stop applyPatches: once it has committed
\* anything it leaves only after one attempt per document, in group order,
\* never two for one document, and a document whose commit failed is as the
\* run found it.
C6_FailureDoesNotAbort ==
    ~dryRun =>
        /\ pc = "apply" => Len(commits) = k - 1
        /\ (pc # "apply" /\ commits # <<>>) => Len(commits) = Len(Groups)
        /\ \A j \in 1..Len(commits) :
              /\ j <= Len(Groups) /\ commits[j].documentId = Groups[j].documentId
              /\ ~commits[j].ok =>
                    store[commits[j].documentId] = runStart[commits[j].documentId]
        /\ \A a, b \in 1..Len(commits) :
              a # b => commits[a].documentId # commits[b].documentId

\* C6 witness: the first document's commit failed, the second document was
\* still committed and changed
C6_Witness ==
    /\ pc = "done" /\ Len(commits) = 2
    /\ ~commits[1].ok /\ commits[2].ok
    /\ store[commits[2].documentId] # runStart[commits[2].documentId]
    /\ store[commits[1].documentId] = runStart[commits[1].documentId]

\* the accumulated operations of document d
OperationsOf(d) == SelectSeq(allPatchOperations, LAMBDA op : op.documentId = d)

\* C7: in apply mode every target document gets one commit per run, and that
\* commit carries one set instruction per operation accumulated for the
\* document, whatever legacy asset the operation came from.
C7_OneCommitPerDocument ==
    /\ \A a, b \in 1..Len(commits) : a # b => commits[a].documentId # commits[b].documentId
    /\ (pc = "done" /\ ~dryRun) =>
          {commits[j].documentId : j \in 1..Len(commits)}
            = {allPatchOperations[j].documentId : j \in 1..Len(allPatchOperations)}
    /\ \A j \in 1..Len(commits) :
          LET ops == OperationsOf(commits[j].documentId) IN
          /\ Len(commits[j].sets) = Len(ops)
          /\ \A m \in 1..Len(ops) :
                commits[j].sets[m] = [path |-> ops[m].path, value |-> ops[m].newReference]

\* C7 witness: the document referencing both legacy assets was committed once,
\* with the four set instructions of both
C7_Witness ==
    /\ pc = "done"
    /\ \E j \in 1..Len(commits) :
          /\ commits[j].documentId = PostY /\ commits[j].ok /\ Len(commits[j].sets) = 4
          /\ {StrField(op.oldReference, "_ref") : op \in {OperationsOf(PostY)[m] : m \in 1..4}}
               = {VideoA, VideoB, <<>>}

\* C8: a dry run issues no mutation: no transaction is submitted and the
\* store stays as the run found it; when applyPatches returns, every
\* operation's document is listed once, with the operation's path and
\* replacement target.
C8_DryRunMutatesNothing ==
    dryRun =>
        /\ store = runStart
        /\ commits = <<>>
        /\ \A a, b \in 1..Len(report) : a # b => report[a].documentId # report[b].documentId
        /\ pc = "done" =>
              \A j \in 1..Len(allPatchOperations) :
                  \E r \in 1..Len(report) :
                      /\ report[r].documentId = allPatchOperations[j].documentId
                      /\ \E m \in 1..Len(report[r].lines) :
                            /\ report[r].lines[m].path = allPatchOperations[j].path
                            /\ report[r].lines[m].to
                                 = StrField(allPatchOperations[j].newReference, "_ref")

\* C8 witness: a dry run has listed two documents with pending operations
C8_Witness ==
    /\ dryRun /\ pc = "done" /\ Len(report) = 2
    /\ Len(allPatchOperations) >= 4

\* C9: once the assets are enumerated, a query error while processing one
\* asset skips that asset only: the run ends with every asset processed and,
\* when operations were accumulated, with applyPatches run over them.
C9_QueryErrorSkipsOneAsset ==
    (pc \in {"done", "exit0", "exit1", "fatal"} /\ videoAssets # <<>>) =>
        /\ i > Len(videoAssets)
        /\ allPatchOperations # <<>> => pc = "done"

RECURSIVE Leaves(_, _)
\* the scalars and empty containers of a value, each with the steps leading to
\* it: an attribute name, or an item's index and _key
Leaves(n, loc) ==
    IF n.kind \in {"obj", "arr"} /\ n.kids # <<>>
    THEN UNION {Leaves(n.kids[j].v,
                       Append(loc, IF n.kind = "obj"
                                   THEN [t |-> "field", k |-> n.kids[j].k, i |-> 0, key |-> <<>>]
                                   ELSE [t |-> "item", k |-> "", i |-> j - 1,
                                         key |-> StrField(n.kids[j].v, "_key")]))
                : j \in 1..Len(n.kids)}
    ELSE {[loc |-> loc, val |-> n]}

\* the step is the one the path segment names
StepIs(step, seg) ==
    CASE seg.t = "field" -> step.t = "field" /\ step.k = seg.v
      [] seg.t = "keyed" -> step.t = "item" /\ step.key = <<seg.v>>
      [] seg.t = "index" -> step.t = "item" /\ ToString(step.i) = seg.v

\* the location is at or below the path
Under(loc, segs) ==
    /\ Len(segs) <= Len(loc)
    /\ \A j \in 1..Len(segs) : StepIs(loc[j], segs[j])

\* the paths planned for document d in this run
PlannedPaths(d) ==
    {ParsePath(allPatchOperations[j].path) :
        j \in {j \in 1..Len(allPatchOperations) : allPatchOperations[j].documentId = d}}

\* what a document holds outside the planned paths
OutsidePlanned(doc, planned) ==
    {l \in Leaves(doc, <<>>) : \A q \in planned : ~Under(l.loc, q)}

\* C10: the run creates and deletes no document and leaves the video asset
\* records alone; every set instruction submitted is a planned operation's,
\* on a path ending in `asset` or `media`, for a document that referenced a
\* legacy asset when the run began; everything outside the planned paths of a
\* document is as the run found it.
C10_OnlyPlannedPathsChange ==
    /\ DOMAIN store = DOMAIN runStart
    /\ \A a \in VideoAssetIds(runStart) : store[a] = runStart[a]
    /\ \A d \in DOMAIN store :
          /\ OutsidePlanned(store[d], PlannedPaths(d)) = OutsidePlanned(runStart[d], PlannedPaths(d))
          /\ PlannedPaths(d) = {} => store[d] = runStart[d]
    /\ \A j \in 1..Len(commits) : \A m \in 1..Len(commits[j].sets) :
          /\ Last(commits[j].sets[m].path) \in {"asset", "media"}
          /\ ParsePath(commits[j].sets[m].path) \in PlannedPaths(commits[j].documentId)
          /\ \E a \in VideoAssetIds(runStart) :
                commits[j].documentId \in findDocumentsReferencingAsset(runStart, a)

\* C10 witness: a run has patched a document that also holds a reference
\* outside any `asset` attribute, which is still there
C10_Witness ==
    /\ pc = "done" /\ store[PostX] # runStart[PostX]
    /\ Field(store[PostX], "poster") = Ref(VideoA)
    /\ store[VideoA] = runStart[VideoA]

\* the legacy asset operation j was planned for: its own oldReference, or for a
\* `media` operation that of the `asset` operation pushed just before it
AssetOfOperation(j) ==
    IF StrField(allPatchOperations[j].oldReference, "_ref") # <<>>
    THEN StrField(allPatchOperations[j].oldReference, "_ref")
    ELSE StrField(allPatchOperations[j - 1].oldReference, "_ref")

\* C2 (as claimed): a later run generates no operation for a document whose
\* transaction committed in an earlier run.
C2_NoOperationForMigratedDocument ==
    \A j \in 1..Len(allPatchOperations) :
        allPatchOperations[j].documentId \notin {pair[1] : pair \in migrated}

\* C2 (amended): a later run generates no operation for a document and legacy
\* asset whose operations were part of a transaction that committed in an
\* earlier run.
C2_NoOperationForMigratedReference ==
    \A j \in 1..Len(allPatchOperations) :
        <<allPatchOperations[j].documentId, AssetOfOperation(j)>> \notin migrated

\* C2 witness: the second run has gone through every asset of a dataset whose
\* documents the first run migrated for both assets, and found nothing to update
C2_Witness ==
    /\ run = 2 /\ pc = "exit0" /\ i > Len(videoAssets) /\ failed = <<>>
    /\ {pair[2] : pair \in migrated} = {VideoA, VideoB}
    /\ \E pair \in migrated : pair[1] = PostY

\* the members of S in one fixed order
InSomeOrder(S) == CHOOSE q \in Orderings(S) : TRUE

RECURSIVE OperationsForAssets(_, _)
\* the operations a run without failures accumulates on dataset st for the
\* assets listed
OperationsForAssets(st, assetIds) ==
    IF assetIds = <<>> THEN <<>>
    ELSE LET asset == Project(st[Head(assetIds)], VideoAssetFields)
             info == getMediaLibraryAssetInfo(asset)
             docs == InSomeOrder(findDocumentsReferencingAsset(st, Head(assetIds)))
         IN  (IF info.ok
              THEN OperationsForDocuments([j \in 1..Len(docs) |-> st[docs[j]]], asset, info)
              ELSE <<>>)
             \o OperationsForAssets(st, Tail(assetIds))

\* the dataset an uninterrupted apply-mode run without failures leaves of st
Migrate(st) ==
    LET ops == OperationsForAssets(st, InSomeOrder(VideoAssetIds(st))) IN
    [d \in DOMAIN st |->
        ApplySets(st[d], PatchSets(SelectSeq(ops, LAMBDA op : op.documentId = d)))]

\* this run met no failure so far
NoFailure == failed = <<>> /\ \A j \in 1..Len(commits) : commits[j].ok

\* every document is as the run found it or has all of its operations applied
MigratedOrUntouched ==
    \A d \in DOMAIN store :
        \/ store[d] = runStart[d]
        \/ store[d] = ApplySets(runStart[d], PatchSets(OperationsOf(d)))

\* a run that ended without a failure leaves what an uninterrupted run of the
\* original dataset leaves
CompleteRunReachesMigrate ==
    (pc \in {"done", "exit0"} /\ ~dryRun /\ NoFailure) => store = Migrate(origin)

\* C11 (as claimed): when an apply-mode run is aborted every document is fully
\* migrated or untouched; a later complete run without failures ends in the
\* store state of an uninterrupted run; and a later run generates no operation
\* for a document migrated before the abort.
C11_ResumablePerDocument ==
    /\ pc = "aborted" => MigratedOrUntouched
    /\ CompleteRunReachesMigrate
    /\ interrupted # {} =>
          \A j \in 1..Len(allPatchOperations) :
              allPatchOperations[j].documentId \notin {pair[1] : pair \in migrated}

\* C11 (amended): as claimed, except that the later run generates no operation
\* for a document and legacy asset whose operations were committed before the
\* abort (a document committed without the operations of an asset whose
\* discovery had failed still gets those).
C11_ResumablePerReference ==
    /\ pc = "aborted" => MigratedOrUntouched
    /\ CompleteRunReachesMigrate
    /\ interrupted # {} =>
          \A j \in 1..Len(allPatchOperations) :
              <<allPatchOperations[j].documentId, AssetOfOperation(j)>> \notin migrated

\* C11 witness: the first run was aborted after it had committed one of two
\* documents; the second run committed the other one only and ended, without
\* a failure, in the store state of an uninterrupted run
C11_Witness ==
    /\ run = 2 /\ interrupted = {1} /\ pc = "done" /\ NoFailure
    /\ {pair[1] : pair \in migrated} = {PostY}
    /\ {commits[j].documentId : j \in 1..Len(commits)} = {PostX}
    /\ store = Migrate(origin) /\ store # origin

----------------------------------------------------------------------------
\* the commits of this run, of a document another actor edited in this run
CommitsAfterEdit ==
    {<<e, c>> \in (1..Len(externalEdits)) \X (1..Len(commits)) :
        /\ externalEdits[e].run = run
        /\ commits[c].documentId = externalEdits[e].documentId}

\* whether the store holds what the other actor wrote
ExternalValueStands(e) ==
    ApplySets(store[externalEdits[e].documentId],
              <<[path |-> externalEdits[e].path, value |-> externalEdits[e].value]>>)
        = store[externalEdits[e].documentId]

\* C12: a commit that succeeds after another actor edited an `asset` field the
\* script has an operation for sets the planned values whatever the field
\* holds by then: the other actor's value is gone and the planned values stand
C12_ExternalEditOverwritten ==
    \A pair \in CommitsAfterEdit :
        LET e == pair[1]
            c == pair[2]
        IN  commits[c].ok =>
              /\ ~ExternalValueStands(e)
              /\ ApplySets(store[commits[c].documentId], commits[c].sets)
                    = store[commits[c].documentId]

\* an edit made after discovery, to a value that is not the recorded
\* oldReference, overwritten by a successful commit in a run without failures
C12_Witness ==
    /\ pc = "done" /\ NoFailure
    /\ CommitsAfterEdit # {}
    /\ \A pair \in CommitsAfterEdit :
          /\ commits[pair[2]].ok
          /\ ~ExternalValueStands(pair[1])
          /\ \A j \in 1..Len(allPatchOperations) :
                allPatchOperations[j].documentId = externalEdits[pair[1]].documentId
                  => allPatchOperations[j].oldReference # externalEdits[pair[1]].value
    /\ store # runStart

----------------------------------------------------------------------------
\* whether an array item carries a `_key`
Keyed(item) == Field(item, "_key").kind = "str" /\ Field(item, "_key").val # <<>>

\* the positions of the top-level array fields of a document
ArrayFields(doc) == {f \in 1..Len(doc.kids) : doc.kids[f].v.kind = "arr"}

\* the document with the items of its array field f in the order q
Reordered(doc, f, q) ==
    [doc EXCEPT !.kids[f].v.kids = [j \in 1..Len(q) |-> doc.kids[f].v.kids[q[j]]]]

\* the members of a sequence
Range(q) == {q[j] : j \in 1..Len(q)}

\* C13: a matching `asset` field inside an array item that carries a `_key` is
\* reported under the segment [_key=="<key>"], one inside an item without a
\* `_key` under [i] for the item's index i; and when all items of the array
\* carry a `_key`, every permutation of the items yields the same set of paths.
C13_PathStableUnderReordering ==
    \A d \in DocumentIds, T \in Filters \cup {<<>>} :
        \A f \in ArrayFields(store[d]) :
            LET name == store[d].kids[f].k
                items == store[d].kids[f].v.kids
                paths == Range(findAssetPaths(store[d], T))
            IN  /\ \A j \in 1..Len(items) :
                      IsAssetEntry("asset", Field(items[j].v, "asset"), T) =>
                        IF Keyed(items[j].v)
                        THEN <<name, "[", "_key==", "QUOTE">> \o Field(items[j].v, "_key").val
                                \o <<"QUOTE", "]", ".", "asset">> \in paths
                        ELSE <<name, "[", ToString(j - 1), "]", ".", "asset">> \in paths
                /\ (\A j \in 1..Len(items) : Keyed(items[j].v)) =>
                      \A q \in Orderings(1..Len(items)) :
                          Range(findAssetPaths(Reordered(store[d], f, q), T)) = paths

\* C13 witness: a document holds an array of two keyed items and the
\* operations generated for it address the second item by its key
C13_Witness ==
    /\ \E f \in ArrayFields(store[PostX]) :
          /\ Len(store[PostX].kids[f].v.kids) >= 2
          /\ \A j \in 1..Len(store[PostX].kids[f].v.kids) : Keyed(store[PostX].kids[f].v.kids[j].v)
    /\ \E j \in 1..Len(allPatchOperations) :
          /\ allPatchOperations[j].documentId = PostX
          /\ allPatchOperations[j].path
                = <<"gallery", "[", "_key==", "QUOTE", "k2", "QUOTE", "]", ".", "asset">>

----------------------------------------------------------------------------
\* whether the reference target of media is a string that splits on `:` into
\* exactly three parts, the first of them `media-library`
TargetIsToken(media) ==
    /\ Field(media, "_ref").kind = "str"
    /\ LET ref == Field(media, "_ref").val IN
       /\ Cardinality({j \in 1..Len(ref) : ref[j] = ":"}) = 2
       /\ Len(ref) >= 2 /\ ref[1] = "media-library" /\ ref[2] = ":"

\* whether a printed reason calls the token of the asset malformed
MalformedReported(asset) ==
    \E m \in 1..Len(reasons) :
        reasons[m].asset = StrField(asset, "_id") /\ reasons[m].reason = MalformedToken

\* C14: for a processed asset whose `media` field is present, the reason
\* "malformed token" is printed (in a run that prints reasons) exactly when the
\* reference target of the field is not a three-part media-library token; and
\* when it is one, parsing yields its second and third part as library and
\* instance, whatever the `_type` of the field's value.
C14_TokenParsing ==
    \A j \in Processed :
        LET media == Field(videoAssets[j], "media") IN
        media.kind # "undefined" =>
            /\ verbose => (MalformedReported(videoAssets[j]) <=> ~TargetIsToken(media))
            /\ TargetIsToken(media) =>
                  LET parts == Split(Field(media, "_ref").val, ":") IN
                  parseMediaReference(media)
                    = [ok |-> TRUE, libraryId |-> parts[2], instanceId |-> parts[3]]

----------------------------------------------------------------------------
\* the operations whose path ends in the attribute name
Replacing(name) ==
    {j \in 1..Len(allPatchOperations) : Last(allPatchOperations[j].path) = name}

\* C15: once the summary is printed, the `asset` count is the number of
\* operations whose path ends in `asset`, the `media` count the number whose
\* path ends in `media`, the two are equal and add up to the total, and the
\* unique-document count is the number of distinct documentIds, whatever the
\* other field names of the paths.
C15_SummaryCounts ==
    pc = "apply" =>
        /\ assetOps(allPatchOperations) = Cardinality(Replacing("asset"))
        /\ mediaOps(allPatchOperations) = Cardinality(Replacing("media"))
        /\ assetOps(allPatchOperations) = mediaOps(allPatchOperations)
        /\ assetOps(allPatchOperations) + mediaOps(allPatchOperations)
              = Len(allPatchOperations)
        /\ uniqueDocuments(allPatchOperations)
              = Cardinality({allPatchOperations[j].documentId : j \in 1..Len(allPatchOperations)})
====
